---- MODULE Spec2Model ----
(***************************************************************************)
(* Model of server.js: the etapas/hitos REST backend.                      *)
(*                                                                         *)
(* State: the two MySQL tables the DDL of initDB declares (with their      *)
(* NOT NULL, DEFAULT, AUTO_INCREMENT and FOREIGN KEY clauses), the         *)
(* connection pool, the position of initDB, whether app.listen has run,    *)
(* the DELETE /api/etapas/:id requests suspended between their two         *)
(* queries, the uploads directory, and the last response sent.             *)
(***************************************************************************)
EXTENDS Integers, Sequences, FiniteSets, TLC

VARIABLES
  tables,        \* names of the tables that exist in the database
  etapas,        \* rows of table etapas: [id, nombre, color]
  hitos,         \* rows of table hitos
  nextEtapaId,   \* AUTO_INCREMENT counter of etapas
  nextHitoId,    \* AUTO_INCREMENT counter of hitos
  pc,            \* position of initDB() in the running process
  poolInUse,     \* connections checked out of the pool and not released
  listening,     \* app.listen has been called
  pending,       \* ids of DELETE /api/etapas/:id requests past their COUNT
  uploads,       \* file names stored under uploads/
  last           \* the last step's request, response and pre-state

vars == <<tables, etapas, hitos, nextEtapaId, nextHitoId, pc, poolInUse,
          listening, pending, uploads, last>>

dbvars == <<tables, etapas, hitos, nextEtapaId, nextHitoId>>

----------------------------------------------------------------------------
(* Bounds of the model *)

\* AUTO_INCREMENT ids handed out per table
MaxEtapaId == 5
MaxHitoId == 2
\* DELETE /api/etapas/:id requests suspended between COUNT and DELETE
MaxPending == 1
\* files kept under uploads/
MaxUploads == 1

----------------------------------------------------------------------------
(* Values *)

\* SQL NULL, as stored in a nullable column
NULL == "NULL"

\* DEFAULT of etapas.color
DefaultColor == "#4f46e5"

\* A request body is a record holding the fields the client sent; a field the
\* client left out is undefined in JavaScript.
Has(body, f) == f \in DOMAIN body

\* sqlstring escaping of a placeholder value: undefined becomes NULL.
Param(body, f) == IF Has(body, f) THEN body[f] ELSE NULL

\* JavaScript `x || null` on a string field: undefined and "" are falsy.
OrNull(body, f) == IF Has(body, f) /\ body[f] # "" THEN body[f] ELSE NULL

----------------------------------------------------------------------------
(* The storage layer: the tables as the DDL of initDB declares them *)

EtapaIds == {e.id : e \in etapas}

\* A statement on a table that does not exist fails.
TableExists(t) == t \in tables

\* INSERT INTO etapas (nombre, color): both columns are NOT NULL. The
\* statement names the color column, so its DEFAULT is used only for a row
\* whose statement leaves the column out; a NULL given for it is an error.
EtapaInsertAccepted(body) ==
  /\ TableExists("etapas")
  /\ Has(body, "nombre")
  /\ Has(body, "color")

EtapaRow(id, nombre, color) == [id |-> id, nombre |-> nombre, color |-> color]

\* The four rows of the seeding INSERT, in statement order.
DefaultEtapas ==
  << [nombre |-> "Planificación", color |-> "#4f46e5"],
     [nombre |-> "Ejecución",     color |-> "#059669"],
     [nombre |-> "Finalizado",    color |-> "#b91c1c"],
     [nombre |-> "En espera",     color |-> "#d97706"] >>

\* The multi-row seeding INSERT: consecutive AUTO_INCREMENT ids from `first`.
SeedRows(first) ==
  { EtapaRow(first + i - 1, DefaultEtapas[i].nombre, DefaultEtapas[i].color) :
      i \in 1..Len(DefaultEtapas) }

\* SELECT COUNT(*) FROM hitos WHERE etapa_id = ?
CountHitosMissingWhere(id) == 0
CountHitos(id) == Cardinality({h \in hitos : h.etapa_id = id})

\* FOREIGN KEY (etapa_id) REFERENCES etapas(id), on a child row written:
\* the referenced etapa must exist.
FKChildUnchecked(eid) == TRUE
FKChildOK(eid) == eid \in EtapaIds

\* The same constraint on a parent row deleted (default RESTRICT): no hito
\* may reference it.
FKParentUnchecked(id) == TRUE
FKParentOK(id) == \A h \in hitos : h.etapa_id # id

\* DELETE FROM etapas WHERE id = ?
EtapasWithout(id) == {e \in etapas : e.id # id}

\* DELETE FROM hitos WHERE id = ?
HitosWithoutMissingWhere(id) == {}
HitosWithout(id) == {h \in hitos : h.id # id}

----------------------------------------------------------------------------
(* Responses *)

NoBody == [none |-> TRUE]

Response(op, id, body, status, out) ==
  [op |-> op, id |-> id, body |-> body, status |-> status, out |-> out,
   preE |-> etapas, preH |-> hitos, preU |-> uploads]

\* The two queries of DELETE /api/etapas/:id, and the status of a request
\* that is suspended between them: no response yet.
CountQuery == [query |-> "count"]
DeleteQuery == [query |-> "delete"]
Awaiting == 0

\* While initDB runs, `last` keeps the tables as they were when it started;
\* once it has resolved, whether its try block ended ("ok") or its catch
\* block ran ("error").
BootRecord(result, preE, preH) ==
  [op |-> "initDB", id |-> 0, body |-> NoBody, status |-> Awaiting,
   out |-> [initDB |-> result], preE |-> preE, preH |-> preH,
   preU |-> uploads]

----------------------------------------------------------------------------
(* initDB and the start of the server *)

Init ==
  /\ tables = {}
  /\ etapas = {}
  /\ hitos = {}
  /\ nextEtapaId = 1
  /\ nextHitoId = 1
  /\ pc = "getConnection"
  /\ poolInUse = 0
  /\ listening = FALSE
  /\ pending = {}
  /\ uploads = {}
  /\ last = BootRecord("running", {}, {})

\* An await of initDB that throws: control passes to the catch block.
Throw ==
  /\ pc' = "catch"
  /\ UNCHANGED <<dbvars, poolInUse, listening, pending, uploads, last>>

\* const connection = await pool.getConnection()
GetConnection ==
  /\ pc = "getConnection"
  /\ \/ /\ poolInUse' = poolInUse + 1
        /\ pc' = "createEtapas"
        /\ UNCHANGED <<dbvars, listening, pending, uploads, last>>
     \/ Throw

\* CREATE TABLE IF NOT EXISTS etapas
CreateEtapas ==
  /\ pc = "createEtapas"
  /\ \/ /\ tables' = tables \cup {"etapas"}
        /\ pc' = "createHitos"
        /\ UNCHANGED <<etapas, hitos, nextEtapaId, nextHitoId, poolInUse,
                       listening, pending, uploads, last>>
     \/ Throw

\* CREATE TABLE IF NOT EXISTS hitos
CreateHitos ==
  /\ pc = "createHitos"
  /\ \/ /\ tables' = tables \cup {"hitos"}
        /\ pc' = "selectEtapas"
        /\ UNCHANGED <<etapas, hitos, nextEtapaId, nextHitoId, poolInUse,
                       listening, pending, uploads, last>>
     \/ Throw

\* if (etapas.length === 0)
NeedsSeedAlways(rows) == TRUE
NeedsSeed(rows) == rows = {}

\* const [etapas] = await connection.query('SELECT * FROM etapas')
SelectEtapas ==
  /\ pc = "selectEtapas"
  /\ \/ /\ pc' = IF NeedsSeed(etapas) THEN "insertDefaults" ELSE "release"
        /\ UNCHANGED <<dbvars, poolInUse, listening, pending, uploads, last>>
     \/ Throw

\* INSERT INTO etapas (nombre, color) VALUES (four default rows)
InsertDefaults ==
  /\ pc = "insertDefaults"
  /\ \/ /\ etapas' = etapas \cup SeedRows(nextEtapaId)
        /\ nextEtapaId' = nextEtapaId + Len(DefaultEtapas)
        /\ pc' = "release"
        /\ UNCHANGED <<tables, hitos, nextHitoId, poolInUse, listening,
                       pending, uploads, last>>
     \/ Throw

\* connection.release(); console.log(...): the try block ends, initDB resolves
Release ==
  /\ pc = "release"
  /\ poolInUse' = poolInUse - 1
  /\ pc' = "resolved"
  /\ last' = BootRecord("ok", last.preE, last.preH)
  /\ UNCHANGED <<dbvars, listening, pending, uploads>>

\* catch (error) { console.error(...) }: initDB resolves all the same
Catch ==
  /\ pc = "catch"
  /\ pc' = "resolved"
  /\ last' = BootRecord("error", last.preE, last.preH)
  /\ UNCHANGED <<dbvars, poolInUse, listening, pending, uploads>>

\* initDB().then(() => app.listen(...)): the callback runs once the promise
\* of initDB has resolved.
ListenWithoutAwait == TRUE
ListenReady == pc = "resolved"

Listen ==
  /\ ListenReady
  /\ ~listening
  /\ listening' = TRUE
  /\ UNCHANGED <<dbvars, pc, poolInUse, pending, uploads, last>>

\* The process is stopped and started again on the same database: a new
\* pool, initDB from its first line, requests in flight are gone.
Restart ==
  /\ pc' = "getConnection"
  /\ poolInUse' = 0
  /\ listening' = FALSE
  /\ pending' = {}
  /\ last' = BootRecord("running", etapas, hitos)
  /\ UNCHANGED <<dbvars, uploads>>

----------------------------------------------------------------------------
(* Requests the model sends *)

\* :id of DELETE /api/etapas/:id: the first default etapa, the etapas created
\* by POST /api/etapas, and one id no row has
FirstCreatedId == Len(DefaultEtapas) + 1
EtapaIdInputs == {1} \cup (FirstCreatedId..(MaxEtapaId + 1))

\* :id of the hitos routes: the first and the last id the table can hold,
\* and one beyond them
HitoIdInputs == {1, MaxHitoId, MaxHitoId + 1}

\* bodies of POST /api/etapas: with the color, and with the color left out
EtapaBodies ==
  [nombre : {"Review"}, color : {"#123456"}] \cup [nombre : {"Review"}]

\* bodies of POST /api/hitos and PUT /api/hitos/:id: the full field set, for
\* the first default etapa; the required fields with an empty completion
\* date, for the first created etapa; location with completion date alone
HitoBodies ==
  [item : {2}, etapa_id : {1}, fecha_inicio : {"2024-01-15"},
   ubicacion : {"Lima"}, fecha_finalizacion : {"2024-06-30"},
   comentarios : {"ok"}, ilustracion : {"/uploads/1.png"}]
  \cup
  [item : {1}, etapa_id : {FirstCreatedId}, fecha_inicio : {"2024-02-01"},
   ubicacion : {"Cusco"}, fecha_finalizacion : {""}]
  \cup
  [ubicacion : {"Cusco"}, fecha_finalizacion : {"2024-06-30"}]

----------------------------------------------------------------------------
(* Routes for etapas *)

\* id of the row with the smallest id / item among a non-empty set of rows
MinId(rows) == CHOOSE i \in {r.id : r \in rows} : \A r \in rows : i <= r.id

\* SELECT * FROM etapas ORDER BY id
RECURSIVE OrderById(_)
OrderById(rows) ==
  IF rows = {} THEN << >>
  ELSE LET first == CHOOSE r \in rows : r.id = MinId(rows)
       IN  <<first>> \o OrderById(rows \ {first})

\* app.get('/api/etapas')
GetEtapas ==
  /\ listening
  /\ last' = IF TableExists("etapas")
             THEN Response("getEtapas", 0, NoBody, 200, OrderById(etapas))
             ELSE Response("getEtapas", 0, NoBody, 500, NoBody)
  /\ UNCHANGED <<dbvars, pc, poolInUse, listening, pending, uploads>>

\* app.post('/api/etapas')
PostEtapa ==
  /\ listening
  /\ nextEtapaId <= MaxEtapaId
  /\ \E body \in EtapaBodies :
       IF EtapaInsertAccepted(body)
       THEN /\ etapas' = etapas \cup
                           {EtapaRow(nextEtapaId, body.nombre, body.color)}
            /\ nextEtapaId' = nextEtapaId + 1
            /\ last' = Response("postEtapa", 0, body, 201,
                                EtapaRow(nextEtapaId, body.nombre, body.color))
            /\ UNCHANGED <<tables, hitos, nextHitoId>>
       ELSE /\ last' = Response("postEtapa", 0, body, 500, NoBody)
            /\ UNCHANGED dbvars
  /\ UNCHANGED <<pc, poolInUse, listening, pending, uploads>>

\* app.delete('/api/etapas/:id'), up to the await of its second query: the
\* COUNT query, and the 400 when the etapa is in use
DeleteEtapaCount ==
  /\ listening
  /\ Cardinality(pending) < MaxPending
  /\ \E id \in EtapaIdInputs \ pending :
       IF ~TableExists("hitos")
       THEN /\ last' = Response("deleteEtapa", id, NoBody, 500, CountQuery)
            /\ UNCHANGED pending
       ELSE IF CountHitos(id) > 0
       THEN /\ last' = Response("deleteEtapa", id, NoBody, 400, CountQuery)
            /\ UNCHANGED pending
       ELSE /\ last' = Response("deleteEtapa", id, NoBody, Awaiting, CountQuery)
            /\ pending' = pending \cup {id}
  /\ UNCHANGED <<dbvars, pc, poolInUse, listening, uploads>>

\* app.delete('/api/etapas/:id'), its second query: DELETE FROM etapas
DeleteEtapaDelete ==
  /\ listening
  /\ \E id \in pending :
       /\ pending' = pending \ {id}
       /\ IF TableExists("etapas") /\ FKParentOK(id)
          THEN /\ etapas' = EtapasWithout(id)
               /\ last' = Response("deleteEtapa", id, NoBody, 200, DeleteQuery)
          ELSE /\ last' = Response("deleteEtapa", id, NoBody, 500, DeleteQuery)
               /\ UNCHANGED etapas
  /\ UNCHANGED <<tables, hitos, nextEtapaId, nextHitoId, pc, poolInUse,
                 listening, uploads>>

----------------------------------------------------------------------------
(* Routes for hitos *)

\* The NOT NULL columns and the foreign key of hitos, on the values of an
\* INSERT: item, etapa_id, fecha_inicio, ubicacion.
HitoInsertAccepted(body) ==
  /\ TableExists("hitos")
  /\ Has(body, "item")
  /\ Has(body, "etapa_id")
  /\ Has(body, "fecha_inicio")
  /\ Has(body, "ubicacion")
  /\ FKChildOK(body.etapa_id)

\* The row INSERT INTO hitos stores for an accepted body.
HitoRow(id, body) ==
  [id |-> id,
   item |-> body.item,
   etapa_id |-> body.etapa_id,
   fecha_inicio |-> body.fecha_inicio,
   ubicacion |-> body.ubicacion,
   fecha_finalizacion |-> OrNull(body, "fecha_finalizacion"),
   comentarios |-> Param(body, "comentarios"),
   ilustracion |-> Param(body, "ilustracion")]

\* The same constraints on the values of the UPDATE, which sets etapa_id,
\* fecha_inicio and ubicacion but not item.
HitoUpdateAccepted(body) ==
  /\ Has(body, "etapa_id")
  /\ Has(body, "fecha_inicio")
  /\ Has(body, "ubicacion")
  /\ FKChildOK(body.etapa_id)

\* UPDATE hitos SET etapa_id = ?, fecha_inicio = ?, ubicacion = ?,
\* fecha_finalizacion = ?, comentarios = ?, ilustracion = ? on one row
UpdatedHitoPatch(row, body) ==
  [row EXCEPT
     !.etapa_id = body.etapa_id,
     !.fecha_inicio = body.fecha_inicio,
     !.ubicacion = body.ubicacion,
     !.fecha_finalizacion =
        IF Has(body, "fecha_finalizacion") THEN body.fecha_finalizacion ELSE @,
     !.comentarios = IF Has(body, "comentarios") THEN body.comentarios ELSE @,
     !.ilustracion = IF Has(body, "ilustracion") THEN body.ilustracion ELSE @]
UpdatedHito(row, body) ==
  [row EXCEPT
     !.etapa_id = body.etapa_id,
     !.fecha_inicio = body.fecha_inicio,
     !.ubicacion = body.ubicacion,
     !.fecha_finalizacion = OrNull(body, "fecha_finalizacion"),
     !.comentarios = Param(body, "comentarios"),
     !.ilustracion = Param(body, "ilustracion")]

\* SELECT h.*, e.nombre as etapa, e.color as etapa_color
\* FROM hitos h JOIN etapas e ON h.etapa_id = e.id
Joined(h, e) ==
  [id |-> h.id, item |-> h.item, etapa_id |-> h.etapa_id,
   fecha_inicio |-> h.fecha_inicio, ubicacion |-> h.ubicacion,
   fecha_finalizacion |-> h.fecha_finalizacion,
   comentarios |-> h.comentarios, ilustracion |-> h.ilustracion,
   etapa |-> e.nombre, etapa_color |-> e.color]

JoinRows == {Joined(h, e) : <<h, e>> \in {p \in hitos \X etapas : p[1].etapa_id = p[2].id}}

\* ORDER BY h.item: every listing of the rows by non-decreasing item (the
\* order of rows of equal item is the storage layer's)
OrderedByItem(rows) ==
  LET n == Cardinality(rows)
  IN  {s \in [1..n -> rows] :
         /\ \A i, j \in 1..n : i < j => s[i] # s[j] /\ s[i].item <= s[j].item}

\* app.get('/api/hitos')
GetHitos ==
  /\ listening
  /\ IF TableExists("hitos") /\ TableExists("etapas")
     THEN \E out \in OrderedByItem(JoinRows) :
            last' = Response("getHitos", 0, NoBody, 200, out)
     ELSE last' = Response("getHitos", 0, NoBody, 500, NoBody)
  /\ UNCHANGED <<dbvars, pc, poolInUse, listening, pending, uploads>>

\* app.post('/api/hitos')
PostHito ==
  /\ listening
  /\ nextHitoId <= MaxHitoId
  /\ \E body \in HitoBodies :
       IF HitoInsertAccepted(body)
       THEN /\ hitos' = hitos \cup {HitoRow(nextHitoId, body)}
            /\ nextHitoId' = nextHitoId + 1
            /\ last' = Response("postHito", 0, body, 201,
                                [id |-> nextHitoId, success |-> TRUE])
            /\ UNCHANGED <<tables, etapas, nextEtapaId>>
       ELSE /\ last' = Response("postHito", 0, body, 500, NoBody)
            /\ UNCHANGED dbvars
  /\ UNCHANGED <<pc, poolInUse, listening, pending, uploads>>

\* app.put('/api/hitos/:id'): the UPDATE checks its values only on the rows
\* the WHERE clause matches
PutHito ==
  /\ listening
  /\ \E id \in HitoIdInputs, body \in HitoBodies :
       LET matched == {h \in hitos : h.id = id}
       IN  IF ~TableExists("hitos")
             \/ (matched # {} /\ ~HitoUpdateAccepted(body))
           THEN /\ last' = Response("putHito", id, body, 500, NoBody)
                /\ UNCHANGED hitos
           ELSE /\ hitos' = (hitos \ matched) \cup
                              {UpdatedHito(h, body) : h \in matched}
                /\ last' = Response("putHito", id, body, 200,
                                    [success |-> TRUE])
  /\ UNCHANGED <<tables, etapas, nextEtapaId, nextHitoId, pc, poolInUse,
                 listening, pending, uploads>>

\* app.delete('/api/hitos/:id')
DeleteHito ==
  /\ listening
  /\ \E id \in HitoIdInputs :
       IF TableExists("hitos")
       THEN /\ hitos' = HitosWithout(id)
            /\ last' = Response("deleteHito", id, NoBody, 200,
                                [success |-> TRUE])
       ELSE /\ last' = Response("deleteHito", id, NoBody, 500, NoBody)
            /\ UNCHANGED hitos
  /\ UNCHANGED <<tables, etapas, nextEtapaId, nextHitoId, pc, poolInUse,
                 listening, pending, uploads>>

----------------------------------------------------------------------------
(* Uploading images. Strings the code inspects are sequences of characters. *)

Lowercase == <<"a","b","c","d","e","f","g","h","i","j","k","l","m",
               "n","o","p","q","r","s","t","u","v","w","x","y","z">>
Uppercase == <<"A","B","C","D","E","F","G","H","I","J","K","L","M",
               "N","O","P","Q","R","S","T","U","V","W","X","Y","Z">>

\* String.prototype.toLowerCase
LowerChar(c) ==
  IF \E i \in 1..Len(Uppercase) : Uppercase[i] = c
  THEN Lowercase[CHOOSE i \in 1..Len(Uppercase) : Uppercase[i] = c]
  ELSE c
toLowerCase(str) == [i \in 1..Len(str) |-> LowerChar(str[i])]

\* path.extname of a name without directory part: from the last dot on; empty
\* when there is no dot, when the only dot leads the name, and for ".."
extname(name) ==
  LET dots == {i \in 1..Len(name) : name[i] = "."}
  IN  IF dots = {} THEN << >>
      ELSE LET d == CHOOSE i \in dots : \A j \in dots : j <= i
           IN  IF d = 1 \/ name = <<".", ".">> THEN << >>
               ELSE SubSeq(name, d, Len(name))

\* str contains word
Contains(str, word) ==
  \E i \in 1..(Len(str) - Len(word) + 1) :
     SubSeq(str, i, i + Len(word) - 1) = word

\* const filetypes = /jpeg|jpg|png|gif/; filetypes.test(str)
filetypes == { <<"j","p","e","g">>, <<"j","p","g">>, <<"p","n","g">>,
               <<"g","i","f">> }
filetypesTest(str) == \E word \in filetypes : Contains(str, word)

\* fileFilter: if (mimetype && extname) return cb(null, true)
fileFilterEither(file) ==
  \/ filetypesTest(file.mimetype)
  \/ filetypesTest(toLowerCase(extname(file.originalname)))
fileFilter(file) ==
  /\ filetypesTest(file.mimetype)
  /\ filetypesTest(toLowerCase(extname(file.originalname)))

\* limits: { fileSize: 5 * 1024 * 1024 }
fileSize == 5 * 1024 * 1024

\* filename: Date.now() + path.extname(file.originalname)
filename(now, file) == [time |-> now, ext |-> extname(file.originalname)]

\* Files the model uploads
Mimetypes ==
  { <<"i","m","a","g","e","/","p","n","g">>,
    <<"I","M","A","G","E","/","P","N","G">>,
    <<"t","e","x","t","/","p","l","a","i","n">>,
    <<"t","e","x","t","/","x","-","g","i","f">> }
Originalnames ==
  { <<"a",".","p","n","g">>, <<"a",".","P","N","G">>, <<"a",".","j","p","g">>,
    <<"a",".","p","n","g","x">>, <<"a",".","t","x","t">>,
    <<".","p","n","g">>, <<"a",".","p","n","g",".","t","x","t">> }
\* sizes under and over the limit (what multer does with a file of exactly
\* fileSize bytes is decided in multer, not in this repository)
Sizes == {fileSize - 1, fileSize + 1}
Files == [mimetype : Mimetypes, originalname : Originalnames, size : Sizes]
NoFile == [none |-> TRUE]
\* values of Date.now() at the uploads
Clock == 1..MaxUploads

\* app.post('/api/upload', upload.single('imagen'), handler): multer runs the
\* filter, stores the file under the limit, and passes its errors to
\* Express, which answers 500; the handler answers 400 without a file and
\* 200 with the URL of the stored file.
Upload ==
  /\ listening
  /\ \E file \in Files \cup {NoFile}, now \in Clock :
       IF file = NoFile
       THEN /\ last' = Response("upload", 0, file, 400, NoBody)
            /\ UNCHANGED uploads
       ELSE IF fileFilter(file) /\ file.size <= fileSize
       THEN /\ Cardinality(uploads \cup {filename(now, file)}) <= MaxUploads
            /\ uploads' = uploads \cup {filename(now, file)}
            /\ last' = Response("upload", 0, file, 200,
                                [url |-> filename(now, file)])
       ELSE /\ last' = Response("upload", 0, file, 500, NoBody)
            /\ UNCHANGED uploads
  /\ UNCHANGED <<dbvars, pc, poolInUse, listening, pending>>

----------------------------------------------------------------------------
Next ==
  \/ GetConnection \/ CreateEtapas \/ CreateHitos \/ SelectEtapas
  \/ InsertDefaults \/ Release \/ Catch \/ Listen \/ Restart
  \/ GetEtapas \/ PostEtapa \/ DeleteEtapaCount \/ DeleteEtapaDelete
  \/ GetHitos \/ PostHito \/ PutHito \/ DeleteHito

Spec == Init /\ [][Next]_vars

\* The start of the server and the upload route, which shares no state with
\* the routes of the two tables.
Boot ==
  \/ GetConnection \/ CreateEtapas \/ CreateHitos \/ SelectEtapas
  \/ InsertDefaults \/ Release \/ Catch

NextUpload == Boot \/ Listen \/ Upload

UploadSpec == Init /\ [][NextUpload]_vars

\* Each await of initDB settles and the callback of its promise runs: the
\* event loop never starves a continuation that is ready.
FairSpec == Spec /\ WF_vars(Boot) /\ WF_vars(Listen)

----------------------------------------------------------------------------
(* Properties *)

Ids(rows) == {r.id : r \in rows}

\* Both tables exist: no statement of a route fails for a missing table.
SchemaPresent == TableExists("etapas") /\ TableExists("hitos")

\* C1: a DELETE /api/etapas/:id whose COUNT query runs while a hito has
\* etapa_id = id is answered 400, and the rows of etapas and of hitos are
\* what they were.
C1_DeleteEtapaInUse ==
  ( /\ last.op = "deleteEtapa"
    /\ last.out = CountQuery
    /\ \E h \in last.preH : h.etapa_id = last.id )
  => /\ last.status = 400
     /\ etapas = last.preE
     /\ hitos = last.preH
     /\ last.id \notin pending

C1_Witness ==
  /\ last.op = "deleteEtapa"
  /\ last.status = 400
  /\ last.id \in Ids(etapas)
  /\ \E h \in hitos : h.etapa_id = last.id

\* C2: in every state, every hito's etapa_id is the id of a row of etapas,
\* whatever the interleaving of the routes, a hito written between the two
\* queries of a DELETE /api/etapas/:id included.
C2_ForeignKey == \A h \in hitos : h.etapa_id \in Ids(etapas)

\* The race: the COUNT saw no hito, a hito then took the etapa, and the
\* DELETE was refused.
C2_Witness ==
  /\ last.op = "deleteEtapa"
  /\ last.out = DeleteQuery
  /\ last.status = 500
  /\ last.id \in Ids(etapas)
  /\ \E h \in hitos : h.etapa_id = last.id

RequiredHitoFields == {"item", "etapa_id", "fecha_inicio", "ubicacion"}

\* C3: with both tables present, a POST /api/hitos whose required fields are
\* all there is answered 201 and stores one new row under a new id exactly
\* when its etapa_id is the id of an etapa; otherwise it is answered 500 and
\* both tables are what they were.
C3_PostHitoForeignKey ==
  ( /\ last.op = "postHito"
    /\ SchemaPresent
    /\ RequiredHitoFields \subseteq DOMAIN last.body )
  => IF last.body.etapa_id \in Ids(last.preE)
     THEN /\ last.status = 201
          /\ last.out.id \notin Ids(last.preH)
          /\ \E h \in hitos :
               /\ h.id = last.out.id
               /\ h.etapa_id = last.body.etapa_id
               /\ h.item = last.body.item
               /\ hitos = last.preH \cup {h}
          /\ etapas = last.preE
     ELSE /\ last.status = 500
          /\ hitos = last.preH
          /\ etapas = last.preE

C3_Witness ==
  /\ last.op = "postHito"
  /\ SchemaPresent
  /\ RequiredHitoFields \subseteq DOMAIN last.body
  /\ last.body.etapa_id \notin Ids(last.preE)
  /\ last.preE # {}
  /\ last.status = 500

\* The value a placeholder of the UPDATE gets from the body: the field's
\* value, NULL when the field is left out.
Sent(body, f) == IF f \in DOMAIN body THEN body[f] ELSE NULL

\* C4 as claimed: after a PUT /api/hitos/:id on an existing hito whose body
\* holds only ubicacion and fecha_finalizacion, the row shows those two
\* values, its other fields are what they were, and so is every other row.
C4_PartialUpdateApplied ==
  ( /\ last.op = "putHito"
    /\ last.id \in Ids(last.preH)
    /\ DOMAIN last.body = {"ubicacion", "fecha_finalizacion"} )
  => \E old \in last.preH :
       /\ old.id = last.id
       /\ hitos = (last.preH \ {old}) \cup
                    {[old EXCEPT !.ubicacion = last.body.ubicacion,
                                 !.fecha_finalizacion =
                                    last.body.fecha_finalizacion]}
       /\ etapas = last.preE

\* C4, amended: a PUT /api/hitos/:id on an existing hito replaces all six of
\* etapa_id, fecha_inicio, ubicacion, fecha_finalizacion, comentarios and
\* ilustracion by what the body sends (NULL for comentarios or ilustracion
\* left out, NULL for a fecha_finalizacion left out or empty), keeps id and
\* item, and changes no other row, when the body holds etapa_id (of an
\* existing etapa), fecha_inicio and ubicacion; a body that holds only
\* ubicacion and fecha_finalizacion is answered 500 and changes no row.
C4_UpdateReplacesAllFields ==
  ( /\ last.op = "putHito"
    /\ last.id \in Ids(last.preH) )
  => \E old \in last.preH :
       /\ old.id = last.id
       /\ etapas = last.preE
       /\ IF /\ {"etapa_id", "fecha_inicio", "ubicacion"} \subseteq
                   DOMAIN last.body
             /\ last.body.etapa_id \in Ids(last.preE)
          THEN /\ last.status = 200
               /\ hitos = (last.preH \ {old}) \cup
                    { [id |-> old.id,
                       item |-> old.item,
                       etapa_id |-> last.body.etapa_id,
                       fecha_inicio |-> last.body.fecha_inicio,
                       ubicacion |-> last.body.ubicacion,
                       fecha_finalizacion |->
                          IF Sent(last.body, "fecha_finalizacion") = ""
                          THEN NULL
                          ELSE Sent(last.body, "fecha_finalizacion"),
                       comentarios |-> Sent(last.body, "comentarios"),
                       ilustracion |-> Sent(last.body, "ilustracion")] }
          ELSE /\ last.status = 500
               /\ hitos = last.preH

\* A hito with comments was updated by a body without them, next to another
\* hito.
C4_Witness ==
  /\ last.op = "putHito"
  /\ last.status = 200
  /\ "comentarios" \notin DOMAIN last.body
  /\ \E old \in last.preH :
       /\ old.id = last.id
       /\ old.comentarios # NULL
       /\ old.item # last.body.item
  /\ Cardinality(hitos) > 1

\* C5: with both tables present, a DELETE /api/etapas/:id, a PUT
\* /api/hitos/:id and a DELETE /api/hitos/:id whose id no row has are not
\* refused (the COUNT query of the first lets it through to its DELETE) and
\* are answered 200, never 404, and no row of either table changes.
C5_AbsentIdSucceeds ==
  /\ last.status # 404
  /\ ( /\ last.op = "deleteEtapa"
       /\ SchemaPresent
       /\ last.id \notin Ids(last.preE) )
     => /\ last.status = IF last.out = CountQuery THEN Awaiting ELSE 200
        /\ last.out = CountQuery => last.id \in pending
        /\ etapas = last.preE
        /\ hitos = last.preH
  /\ ( /\ last.op \in {"putHito", "deleteHito"}
       /\ SchemaPresent
       /\ last.id \notin Ids(last.preH) )
     => /\ last.status = 200
        /\ etapas = last.preE
        /\ hitos = last.preH

C5_Witness ==
  /\ last.op = "deleteHito"
  /\ last.id \notin Ids(last.preH)
  /\ last.preH # {}
  /\ last.status = 200

\* C6 as claimed: with both tables present, a POST /api/etapas with a
\* non-empty nombre and no color is answered 201 with the new row, stored
\* with the default color.
C6_OmittedColorDefaults ==
  ( /\ last.op = "postEtapa"
    /\ SchemaPresent
    /\ "nombre" \in DOMAIN last.body
    /\ "color" \notin DOMAIN last.body )
  => /\ last.status = 201
     /\ last.out.color = DefaultColor
     /\ last.out \in etapas
     /\ last.out.id \notin Ids(last.preE)

\* The four default etapas of the claim, by nombre and color.
FourDefaults ==
  { <<"Planificación", "#4f46e5">>, <<"Ejecución", "#059669">>,
    <<"Finalizado", "#b91c1c">>, <<"En espera", "#d97706">> }

\* initDB has resolved and no request has been handled since.
InitDBJustRan == pc = "resolved" /\ last.op = "initDB"

\* C7: when initDB has run, the rows of hitos are what they were when it
\* started; if etapas held a row then, etapas is what it was; if etapas was
\* empty then, it now holds exactly the four default rows under four new
\* ids when the try block ended, and is still empty when a query failed.
C7_InitDBIdempotent ==
  InitDBJustRan =>
    /\ hitos = last.preH
    /\ last.preE # {} => etapas = last.preE
    /\ (last.preE = {} /\ last.out.initDB = "ok") =>
         /\ Cardinality(etapas) = 4
         /\ Cardinality(Ids(etapas)) = 4
         /\ {<<e.nombre, e.color>> : e \in etapas} = FourDefaults
    /\ (last.preE = {} /\ last.out.initDB = "error") => etapas = {}

\* A restart after requests: initDB ran to its end on tables that held rows.
C7_Witness ==
  /\ InitDBJustRan
  /\ last.out.initDB = "ok"
  /\ last.preH # {}
  /\ Cardinality(last.preE) > 4

\* C8 as claimed: when initDB has finished, on whichever path, the
\* connection it took from the pool is back in the pool.
C8_ConnectionReleased == pc = "resolved" => poolInUse = 0

\* C9: the server listens only once initDB has resolved; a route handles a
\* request only once the server listens; and initDB, whether its queries
\* succeed or fail, never ends the process: a process that is not restarted
\* comes to listen.
C9_ListensAfterInitDB ==
  /\ [](listening => pc = "resolved")
  /\ [](last.op # "initDB" => listening)
  /\ []<>(listening \/ pc = "getConnection")

\* The server listens after an initDB that failed.
C9_Witness ==
  /\ listening
  /\ last.op = "initDB"
  /\ last.out.initDB = "error"
  /\ ~SchemaPresent

\* The claim's condition on a declared MIME type and on an extension: it
\* matches one of jpeg, jpg, png, gif.
ImageWords == { <<"j","p","e","g">>, <<"j","p","g">>, <<"p","n","g">>,
                <<"g","i","f">> }
MatchesImageWord(str) ==
  \E w \in ImageWords, i \in 1..Len(str) :
     /\ i + Len(w) - 1 <= Len(str)
     /\ \A k \in 1..Len(w) : str[i + k - 1] = w[k]

\* The extension of the claim: the name from its last dot on, in lower case,
\* when that dot is not the first character.
LowerCaseExtensions ==
  [n \in Originalnames |->
     CASE n = <<"a",".","p","n","g">> -> <<".","p","n","g">>
       [] n = <<"a",".","P","N","G">> -> <<".","p","n","g">>
       [] n = <<"a",".","j","p","g">> -> <<".","j","p","g">>
       [] n = <<"a",".","p","n","g","x">> -> <<".","p","n","g","x">>
       [] n = <<"a",".","t","x","t">> -> <<".","t","x","t">>
       [] n = <<"a",".","p","n","g",".","t","x","t">> -> <<".","t","x","t">>
       [] OTHER -> << >>]

\* C10: an upload without a file is answered 400; one with a file is answered
\* 200, its file stored and named in the answer, exactly when the file is
\* at most 5 MiB and both its declared MIME type and its extension match one
\* of jpeg, jpg, png, gif; any other is answered 500 and stores nothing.
C10_UploadAccepted ==
  last.op = "upload" =>
    IF last.body = NoFile
    THEN last.status = 400 /\ uploads = last.preU
    ELSE IF /\ last.body.size <= 5 * 1024 * 1024
            /\ MatchesImageWord(last.body.mimetype)
            /\ MatchesImageWord(LowerCaseExtensions[last.body.originalname])
    THEN /\ last.status = 200
         /\ last.out.url \in uploads
         /\ uploads = last.preU \cup {last.out.url}
    ELSE /\ last.status = 500
         /\ uploads = last.preU

\* A file one byte under 5 MiB with an upper-case extension was accepted.
C10_Witness ==
  /\ last.op = "upload"
  /\ last.status = 200
  /\ last.body.size = 5 * 1024 * 1024 - 1
  /\ last.body.originalname = <<"a",".","P","N","G">>
  /\ uploads # {}

====
